---- MODULE Spec2Model ----
(***************************************************************************)
(* The releases API facade of octocrab (src/api/repos/releases.rs):        *)
(* ReleasesHandler, its request builders and the asset upload protocol.    *)
(*                                                                         *)
(* Strings that the code formats, strips or parses (routes, the upload     *)
(* URL) are sequences of one-character strings, so that format!, replace   *)
(* and the URI conversion are computed character by character.  Strings    *)
(* that are only carried as values of a body or a query are TLA+ strings.  *)
(***************************************************************************)
EXTENDS Integers, Sequences, FiniteSets, TLC

\* ------------------------------------------------------------------ bounds
\* Release ids (u64) are drawn from 1..MaxId.
MaxId == 2
\* Page numbers (u32) are drawn from 1..MaxPage.
MaxPage == 2
\* Binary asset bodies have at most MaxBody bytes.
MaxBody == 2

\* --------------------------------------------------------- record fields
\* The fields of the records used below and what each is a field of; every
\* record lists its fields in this order.
RecordFields ==
    [
     connected |-> "response",
     kind |-> "result, builder",
     value |-> "result",
     error |-> "result",
     status |-> "response, result",
     decodes |-> "response",
     type |-> "entity",
     upload_url |-> "response, entity",
     method |-> "request",
     route |-> "request",
     payload |-> "request",
     handler |-> "builder struct",
     release_id |-> "builder struct",
     per_page |-> "builder struct",
     page |-> "builder struct",
     tag_name |-> "builder struct",
     previous_tag_name |-> "builder struct",
     target_commitish |-> "builder struct",
     name |-> "builder struct",
     configuration_file_path |-> "builder struct",
     self |-> "builder",
     content_type |-> "headers",
     content_length |-> "headers",
     uri |-> "request",
     headers |-> "request",
     body |-> "builder struct",
     draft |-> "builder struct",
     prerelease |-> "builder struct",
     make_latest |-> "builder struct",
     label |-> "builder struct",
     pc |-> "step",
     post |-> "step",
     result |-> "step",
     release |-> "step",
     True |-> "MakeLatest",
     False |-> "MakeLatest",
     Legacy |-> "MakeLatest"
    ]

\* ----------------------------------------------------------------- Option
None == <<>>
Some(v) == <<v>>

\* ---------------------------------------------------------------- strings
\* Whether p occurs in s at position i.
OccursAt(p, s, i) ==
    /\ i >= 1
    /\ i + Len(p) - 1 <= Len(s)
    /\ \A j \in 1..Len(p) : s[i + j - 1] = p[j]

Contains(s, p) == \E i \in 1..Len(s) : OccursAt(p, s, i)

IsPrefix(p, s) == OccursAt(p, s, 1)

\* str::replace(pat, ""): every non-overlapping occurrence of pat, found
\* scanning from the left, is removed.
RECURSIVE RemoveFrom(_, _, _)
RemoveFrom(s, pat, i) ==
    IF i > Len(s) THEN <<>>
    ELSE IF OccursAt(pat, s, i) THEN RemoveFrom(s, pat, i + Len(pat))
    ELSE <<s[i]>> \o RemoveFrom(s, pat, i + 1)

replace(s, pat) == RemoveFrom(s, pat, 1)

\* Display of an unsigned integer: its decimal digits.
Digit == <<"0", "1", "2", "3", "4", "5", "6", "7", "8", "9">>

RECURSIVE Decimal(_)
Decimal(n) ==
    IF n < 10 THEN <<Digit[n + 1]>>
    ELSE Decimal(n \div 10) \o <<Digit[(n % 10) + 1]>>

\* ------------------------------------------------------- string literals
Placeholder == <<"{", "?", "n", "a", "m", "e", ",", "l", "a", "b", "e", "l", "}">>
NameParam == <<"?", "n", "a", "m", "e", "=">>
LabelParam == <<"&", "l", "a", "b", "e", "l", "=">>
Slash == <<"/">>
ReleasesSegment == <<"/", "r", "e", "l", "e", "a", "s", "e", "s">>
LatestSegment == <<"/", "l", "a", "t", "e", "s", "t">>
TagsSegment == <<"/", "t", "a", "g", "s", "/">>
AssetsSegment == <<"/", "a", "s", "s", "e", "t", "s">>
GenerateNotesSegment ==
    <<"/", "g", "e", "n", "e", "r", "a", "t", "e", "-", "n", "o", "t", "e", "s">>
OctetStream == "application/octet-stream"

\* ------------------------------------------------------------ input sets
\* The repository reference the facade is constructed with (its Display).
Repos ==
    { <<"r", "e", "p", "o", "s", "/", "o", "/", "r">>,
      <<"r", "e", "p", "o", "s", "/", "p", "/", "q">> }

ReleaseIds == 1..MaxId
Pages == 1..MaxPage
PerPages == {30, 100}
TagNames == {"v1.0.0", "v2.0.0"}
RouteTags == { <<"v", "1", ".", "0", ".", "0">> }
MakeLatestValues == {"True", "False", "Legacy"}

\* Asset names: "a.tar.gz", "a", "a#b", "a b", "a&label=L".
AssetNames ==
    { <<"a", ".", "t", "a", "r", ".", "g", "z">>,
      <<"a">>,
      <<"a", "#", "b">>,
      <<"a", " ", "b">>,
      <<"a", "&", "l", "a", "b", "e", "l", "=", "L">> }

\* Asset labels: "L", "My Asset".
AssetLabels ==
    { <<"L">>,
      <<"M", "y", " ", "A", "s", "s", "e", "t">> }

ByteValues == {0, 255}
Bodies == UNION { [1..n -> ByteValues] : n \in 0..MaxBody }

\* upload_url templates a release can carry:
\*   "https://host/upload{?name,label}"
\*   "https://host/upload"                       (no placeholder)
\*   "https://host/up load{?name,label}"         (not a URI)
\*   "https://host/{?name,label}upload{?name,label}"
Templates ==
    { <<"h", "t", "t", "p", "s", ":", "/", "/", "h", "o", "s", "t", "/",
        "u", "p", "l", "o", "a", "d",
        "{", "?", "n", "a", "m", "e", ",", "l", "a", "b", "e", "l", "}">>,
      <<"h", "t", "t", "p", "s", ":", "/", "/", "h", "o", "s", "t", "/",
        "u", "p", "l", "o", "a", "d">>,
      <<"h", "t", "t", "p", "s", ":", "/", "/", "h", "o", "s", "t", "/",
        "u", "p", " ", "l", "o", "a", "d",
        "{", "?", "n", "a", "m", "e", ",", "l", "a", "b", "e", "l", "}">>,
      <<"h", "t", "t", "p", "s", ":", "/", "/", "h", "o", "s", "t", "/",
        "{", "?", "n", "a", "m", "e", ",", "l", "a", "b", "e", "l", "}",
        "u", "p", "l", "o", "a", "d",
        "{", "?", "n", "a", "m", "e", ",", "l", "a", "b", "e", "l", "}">> }

\* ------------------------------------------------------------- responses
\* What the remote end answers to one request: no connection at all, or a
\* status with a body that decodes into the expected entity or does not.
Statuses == {200, 404, 500}
IsSuccess(status) == status \in 200..299

NoConnection ==
    [connected |-> FALSE, status |-> 0, decodes |-> FALSE, upload_url |-> <<>>]

\* Responses to a request whose entity is not a Release.
PlainResponses ==
    {NoConnection}
    \cup { [connected |-> TRUE, status |-> s, decodes |-> FALSE, upload_url |-> <<>>] :
             s \in Statuses }
    \cup { [connected |-> TRUE, status |-> s, decodes |-> TRUE, upload_url |-> <<>>] :
             s \in {t \in Statuses : IsSuccess(t)} }

\* Responses to a request whose entity is a Release (it carries upload_url).
ReleaseResponses ==
    {NoConnection}
    \cup { [connected |-> TRUE, status |-> s, decodes |-> FALSE, upload_url |-> <<>>] :
             s \in Statuses }
    \cup { [connected |-> TRUE, status |-> s, decodes |-> TRUE, upload_url |-> t] :
             s \in {u \in Statuses : IsSuccess(u)}, t \in Templates }

\* --------------------------------------------------------------- results
Ok(v) == [kind |-> "Ok", value |-> v]
TransportError == [kind |-> "Err", error |-> "Transport"]
RemoteError(status) == [kind |-> "Err", error |-> "Remote", status |-> status]
DecodeError == [kind |-> "Err", error |-> "Decode"]
UriParseErr == [kind |-> "Err", error |-> "UriParse"]
NoResult == [kind |-> "None"]
Unit == [type |-> "Unit"]

\* The entity a successful response decodes into.
Entity(type, resp) ==
    IF type = "Release" THEN [type |-> type, upload_url |-> resp.upload_url]
    ELSE [type |-> type]

\* ------------------------------------------------------------- transport
\* Octocrab::get / post / patch: one typed call.  A connection failure, a
\* non-success status and an undecodable body each give their own error;
\* otherwise the decoded entity.
crab_typed(type, resp) ==
    IF ~resp.connected THEN TransportError
    ELSE IF ~IsSuccess(resp.status) THEN RemoteError(resp.status)
    ELSE IF ~resp.decodes THEN DecodeError
    ELSE Ok(Entity(type, resp))

\* Octocrab::_delete: the DELETE primitive; a non-success status is a
\* RemoteError carrying the status, a success gives the response.
crab_delete(resp) ==
    IF ~resp.connected THEN TransportError
    ELSE IF ~IsSuccess(resp.status) THEN RemoteError(resp.status)
    ELSE Ok(resp)

\* Octocrab::execute: sends a prepared request and hands back the response
\* whatever its status (the caller maps the status afterwards).
crab_execute(resp) ==
    IF ~resp.connected THEN TransportError ELSE Ok(resp)

\* crate::map_github_error
map_github_error(resp) ==
    IF ~IsSuccess(resp.status) THEN RemoteError(resp.status) ELSE Ok(resp)

\* Asset::from_response
from_response(type, resp) ==
    IF ~resp.decodes THEN DecodeError ELSE Ok(Entity(type, resp))

\* A request handed to the typed transport: method, route and the value
\* serialized as query (GET) or JSON body (POST, PATCH), if any.
TypedRequest(method, route, payload) ==
    [method |-> method, route |-> route, payload |-> payload]

\* One awaited transport call issues its request once.
CallWithRetry(req) == <<req, req>>

Call(req) == <<req>>

\* ---------------------------------------------------------------- routes
\* format!("/{}/releases", repo)
RouteWithoutReleases(r) == Slash \o r

ReleasesRoute(r) == Slash \o r \o ReleasesSegment

\* format!("/{}/releases/latest", repo)
LatestRoute(r) == Slash \o r \o ReleasesSegment \o LatestSegment

\* format!("/{}/releases/tags/{tag}", repo)
TagRoute(r, tag) == Slash \o r \o ReleasesSegment \o TagsSegment \o tag

\* format!("/{}/releases/{number}", repo)
ReleaseRoute(r, number) ==
    Slash \o r \o ReleasesSegment \o Slash \o Decimal(number)

\* format!("/{}/releases/generate-notes", repo)
GenerateNotesRoute(r) == Slash \o r \o ReleasesSegment \o GenerateNotesSegment

\* format!("/{repo}/releases/{release_id}/assets")
AssetsRoute(r, release_id) ==
    Slash \o r \o ReleasesSegment \o Slash \o Decimal(release_id) \o AssetsSegment

\* ----------------------------------------------------------------- serde
\* The serde attribute of each field of each builder struct: "skip"
\* (#[serde(skip)]), "if_some" (skip_serializing_if = "Option::is_none") or
\* "always" (no attribute).
ListReleasesBuilderSerde ==
    [handler |-> "skip", per_page |-> "if_some", page |-> "if_some"]

CreateReleaseBuilderSerde ==
    [handler |-> "skip", tag_name |-> "always", target_commitish |-> "if_some",
     name |-> "if_some", body |-> "if_some", draft |-> "if_some",
     prerelease |-> "if_some", make_latest |-> "if_some"]

UpdateReleaseBuilderSerde ==
    [handler |-> "skip", release_id |-> "always", tag_name |-> "if_some",
     target_commitish |-> "if_some", name |-> "if_some", body |-> "if_some",
     draft |-> "if_some", prerelease |-> "if_some", make_latest |-> "if_some"]

GenerateReleaseNotesBuilderSerde ==
    [handler |-> "skip", tag_name |-> "always", previous_tag_name |-> "if_some",
     target_commitish |-> "if_some", configuration_file_path |-> "if_some"]

ListReleaseAssetsBuilderSerde ==
    [handler |-> "skip", release_id |-> "skip", per_page |-> "if_some",
     page |-> "if_some"]

SerdeOf(kind) ==
    CASE kind = "ListReleasesBuilder" -> ListReleasesBuilderSerde
      [] kind = "CreateReleaseBuilder" -> CreateReleaseBuilderSerde
      [] kind = "UpdateReleaseBuilder" -> UpdateReleaseBuilderSerde
      [] kind = "GenerateReleaseNotesBuilder" -> GenerateReleaseNotesBuilderSerde
      [] kind = "ListReleaseAssetsBuilder" -> ListReleaseAssetsBuilderSerde

\* An enum serialized without the rename: the name of the variant as written.
MakeLatestVariantName(v) == v

\* #[serde(rename_all = "lowercase")] enum MakeLatest
MakeLatestToken(v) ==
    CASE v = "True" -> "true"
      [] v = "False" -> "false"
      [] v = "Legacy" -> "legacy"

SerializeField(k, v) == IF k = "make_latest" THEN MakeLatestToken(v) ELSE v

\* A variant of the derive that writes an unset optional field as null.
SerializeNulls(b) ==
    LET attrs == SerdeOf(b.kind)
        keys == {k \in DOMAIN attrs : attrs[k] # "skip"}
    IN  [k \in keys |->
            IF attrs[k] = "always" THEN SerializeField(k, b.self[k])
            ELSE IF b.self[k] = None THEN "null"
            ELSE SerializeField(k, b.self[k][1])]

\* #[derive(serde::Serialize)]: the fields of the serialized value and their
\* values.
Serialize(b) ==
    LET attrs == SerdeOf(b.kind)
        keys == {k \in DOMAIN attrs :
                    \/ attrs[k] = "always"
                    \/ (attrs[k] = "if_some" /\ b.self[k] # None)}
    IN  [k \in keys |->
            IF attrs[k] = "always" THEN SerializeField(k, b.self[k])
            ELSE SerializeField(k, b.self[k][1])]

\* -------------------------------------------------------------- builders
Handler == "ReleasesHandler"
NoBuilder == [kind |-> "none"]

ListReleasesBuilder_new ==
    [kind |-> "ListReleasesBuilder",
     self |-> [handler |-> Handler, per_page |-> None, page |-> None]]

CreateReleaseBuilder_new(tag_name) ==
    [kind |-> "CreateReleaseBuilder",
     self |-> [handler |-> Handler, tag_name |-> tag_name,
               target_commitish |-> None, name |-> None, body |-> None,
               draft |-> None, prerelease |-> None, make_latest |-> None]]

UpdateReleaseBuilder_new(release_id) ==
    [kind |-> "UpdateReleaseBuilder",
     self |-> [handler |-> Handler, release_id |-> release_id,
               tag_name |-> None, target_commitish |-> None, name |-> None,
               body |-> None, draft |-> None, prerelease |-> None,
               make_latest |-> None]]

GenerateReleaseNotesBuilder_new(tag_name) ==
    [kind |-> "GenerateReleaseNotesBuilder",
     self |-> [handler |-> Handler, tag_name |-> tag_name,
               previous_tag_name |-> None, target_commitish |-> None,
               configuration_file_path |-> None]]

ListReleaseAssetsBuilder_new(release_id) ==
    [kind |-> "ListReleaseAssetsBuilder",
     self |-> [handler |-> Handler, release_id |-> release_id,
               per_page |-> None, page |-> None]]

UploadAssetBuilder_new(release_id, name, body) ==
    [kind |-> "UploadAssetBuilder",
     self |-> [handler |-> Handler, release_id |-> release_id, name |-> name,
               body |-> body, label |-> None]]

\* A configuration method: self.field = Some(value); self
with(b, field, value) == [b EXCEPT !.self[field] = Some(value)]

\* The values each configuration method is called with.
ArgumentsOf(field) ==
    CASE field = "per_page" -> PerPages
      [] field = "page" -> Pages
      [] field = "tag_name" -> TagNames
      [] field = "target_commitish" -> {"main"}
      [] field = "name" -> {"Version 1.0.0"}
      [] field = "body" -> {"Announcing 1.0.0!"}
      [] field = "draft" -> BOOLEAN
      [] field = "prerelease" -> BOOLEAN
      [] field = "make_latest" -> MakeLatestValues
      [] field = "previous_tag_name" -> {"v0.9.0"}
      [] field = "configuration_file_path" -> {".github/release.yml"}
      [] field = "label" -> AssetLabels

\* send(self) takes the builder by value: nothing of it is left with the
\* caller.
BorrowIntoSend(b) == b

MoveIntoSend(b) == NoBuilder

\* ---------------------------------------------------------- asset upload
\* Percent-encoding of the characters that delimit a query: each of '&',
\* '=', '#' and ' ' becomes '%' and its two hexadecimal digits.
RECURSIVE PercentEncode(_)
PercentEncode(s) ==
    IF s = <<>> THEN <<>>
    ELSE LET c == Head(s)
             e == CASE c = "&" -> <<"%", "2", "6">>
                    [] c = "=" -> <<"%", "3", "D">>
                    [] c = "#" -> <<"%", "2", "3">>
                    [] c = " " -> <<"%", "2", "0">>
                    [] OTHER -> <<c>>
         IN  e \o PercentEncode(Tail(s))

\* An upload URI whose name and label are percent-encoded before they are
\* inserted.
BaseUriEncoded(upload_url, name, label) ==
    LET base_uri == replace(upload_url, Placeholder) \o NameParam \o PercentEncode(name)
    IN  IF label # None THEN base_uri \o LabelParam \o PercentEncode(label[1])
        ELSE base_uri

\* format!("{}?name={}", release.upload_url.replace("{?name,label}", ""), name)
\* and, when a label is set, format!("{base_uri}&label={label}").
BaseUri(upload_url, name, label) ==
    LET base_uri == replace(upload_url, Placeholder) \o NameParam \o name
    IN  IF label # None THEN base_uri \o LabelParam \o label[1] ELSE base_uri

\* Characters the URI conversion rejects (space and the angle brackets, of
\* the characters used here).
InvalidUriChars == {" ", "<", ">"}

\* The fragment of a URI reference starts at its first '#'.
FragmentStart(s) ==
    IF \E i \in 1..Len(s) : s[i] = "#"
    THEN CHOOSE i \in 1..Len(s) : s[i] = "#" /\ \A j \in 1..(i - 1) : s[j] # "#"
    ELSE Len(s) + 1

\* A conversion whose failure is reported as a transport error.
TryIntoUriAsTransport(base_uri) ==
    LET kept == SubSeq(base_uri, 1, FragmentStart(base_uri) - 1)
    IN  IF kept = <<>> \/ \E i \in 1..Len(kept) : kept[i] \in InvalidUriChars
        THEN TransportError
        ELSE Ok(kept)

\* base_uri.try_into().map_err(|_| UriParseError {}).context(UriParseSnafu):
\* http::Uri scans the string up to its fragment, fails on a character
\* that is not allowed in a URI, and keeps what precedes the fragment.
TryIntoUri(base_uri) ==
    LET kept == SubSeq(base_uri, 1, FragmentStart(base_uri) - 1)
    IN  IF kept = <<>> \/ \E i \in 1..Len(kept) : kept[i] \in InvalidUriChars
        THEN UriParseErr
        ELSE Ok(kept)

\* A request whose Content-Length is not taken from the body.
UploadRequestFixedLength(url, body) ==
    [method |-> "POST", uri |-> url,
     headers |-> [content_type |-> OctetStream, content_length |-> 0],
     body |-> body]

\* Builder::new().method(POST).uri(url).header(CONTENT_TYPE, ..)
\*     .header(CONTENT_LENGTH, self.body.len()).body(self.body)
UploadRequest(url, body) ==
    [method |-> "POST", uri |-> url,
     headers |-> [content_type |-> OctetStream, content_length |-> Len(body)],
     body |-> body]

\* ----------------------------------------------------------------- state
VARIABLES
    repo,       \* the repository reference held by the facade
    builder,    \* the builder the caller holds, or NoBuilder
    uses,       \* how many times the builder created last was finalized
    pc,         \* "idle", "upload_get", "upload_post" or "done"
    op,         \* the operation in progress or completed last
    inflight,   \* the builder moved into the send in progress
    release,    \* upload: the release fetched by the GET, once it returned
    sent,       \* the requests the current operation handed to the transport
    recv,       \* the responses the current operation received
    result      \* what the completed operation returned

vars == <<repo, builder, uses, pc, op, inflight, release, sent, recv, result>>

Init ==
    /\ repo \in Repos
    /\ builder = NoBuilder
    /\ uses = 0
    /\ pc = "idle"
    /\ op = "none"
    /\ inflight = NoBuilder
    /\ release = None
    /\ sent = <<>>
    /\ recv = <<>>
    /\ result = NoResult

\* ------------------------------------------------ creating the builders
NewBuilder(b) ==
    /\ pc = "idle"
    /\ builder = NoBuilder
    /\ builder' = b
    /\ uses' = 0
    /\ UNCHANGED <<repo, pc, op, inflight, release, sent, recv, result>>

list == NewBuilder(ListReleasesBuilder_new)

create == \E tag_name \in TagNames : NewBuilder(CreateReleaseBuilder_new(tag_name))

update == \E release_id \in ReleaseIds : NewBuilder(UpdateReleaseBuilder_new(release_id))

generate_release_notes ==
    \E tag_name \in TagNames : NewBuilder(GenerateReleaseNotesBuilder_new(tag_name))

upload_asset ==
    \E id \in ReleaseIds, asset_name \in AssetNames, body \in Bodies :
        NewBuilder(UploadAssetBuilder_new(id, asset_name, body))

assets == \E release_id \in ReleaseIds : NewBuilder(ListReleaseAssetsBuilder_new(release_id))

\* -------------------------------------------- the configuration methods
Configure(kind, fields) ==
    /\ pc = "idle"
    /\ builder.kind = kind
    /\ \E field \in fields : \E value \in ArgumentsOf(field) :
           builder' = with(builder, field, value)
    /\ UNCHANGED <<repo, uses, pc, op, inflight, release, sent, recv, result>>

ListReleasesBuilder_configure ==
    Configure("ListReleasesBuilder", {"per_page", "page"})

CreateReleaseBuilder_configure ==
    Configure("CreateReleaseBuilder",
              {"target_commitish", "name", "body", "draft", "prerelease",
               "make_latest"})

UpdateReleaseBuilder_configure ==
    Configure("UpdateReleaseBuilder",
              {"tag_name", "target_commitish", "name", "body", "draft",
               "prerelease", "make_latest"})

GenerateReleaseNotesBuilder_configure ==
    Configure("GenerateReleaseNotesBuilder",
              {"previous_tag_name", "target_commitish", "configuration_file_path"})

ListReleaseAssetsBuilder_configure ==
    Configure("ListReleaseAssetsBuilder", {"per_page", "page"})

UploadAssetBuilder_label == Configure("UploadAssetBuilder", {"label"})

\* ------------------------------------------- operations of a single call
\* The operation hands one request to the transport and returns what the
\* transport call gives.
Complete(name, req, resp, res) ==
    /\ pc' = "done"
    /\ op' = name
    /\ sent' = Call(req)
    /\ recv' = <<resp>>
    /\ result' = res

Immediate(name, req, resp, res) ==
    /\ pc = "idle"
    /\ Complete(name, req, resp, res)
    /\ UNCHANGED <<repo, builder, uses, inflight, release>>

Send(kind, name, req, resp, res) ==
    /\ pc = "idle"
    /\ builder.kind = kind
    /\ Complete(name, req, resp, res)
    /\ inflight' = builder
    /\ builder' = MoveIntoSend(builder)
    /\ uses' = uses + 1
    /\ UNCHANGED <<repo, release>>

get_latest ==
    \E resp \in ReleaseResponses :
        Immediate("get_latest", TypedRequest("GET", LatestRoute(repo), None),
                  resp, crab_typed("Release", resp))

get_by_tag ==
    \E tag \in RouteTags, resp \in ReleaseResponses :
        Immediate("get_by_tag", TypedRequest("GET", TagRoute(repo, tag), None),
                  resp, crab_typed("Release", resp))

\* The request of ReleasesHandler::get.
get_request(number) == TypedRequest("GET", ReleaseRoute(repo, number), None)

get ==
    \E number \in ReleaseIds, resp \in ReleaseResponses :
        Immediate("get", get_request(number), resp, crab_typed("Release", resp))

\* A delete that drops the outcome of the call.
DeleteResultIgnoringError(r) == Ok(Unit)

\* self.handler.crab._delete(route, None::<&()>).await?; Ok(())
DeleteResult(r) == IF r.kind = "Err" THEN r ELSE Ok(Unit)

delete ==
    \E id \in ReleaseIds, resp \in PlainResponses :
        Immediate("delete", TypedRequest("DELETE", ReleaseRoute(repo, id), None),
                  resp, DeleteResult(crab_delete(resp)))

ListReleasesBuilder_send ==
    \E resp \in PlainResponses :
        Send("ListReleasesBuilder", "list",
             TypedRequest("GET", ReleasesRoute(repo), Some(Serialize(builder))),
             resp, crab_typed("Page", resp))

CreateReleaseBuilder_send ==
    \E resp \in ReleaseResponses :
        Send("CreateReleaseBuilder", "create",
             TypedRequest("POST", ReleasesRoute(repo), Some(Serialize(builder))),
             resp, crab_typed("Release", resp))

UpdateReleaseBuilder_send ==
    \E resp \in ReleaseResponses :
        Send("UpdateReleaseBuilder", "update",
             TypedRequest("PATCH", ReleaseRoute(repo, builder.self.release_id),
                          Some(Serialize(builder))),
             resp, crab_typed("Release", resp))

GenerateReleaseNotesBuilder_send ==
    \E resp \in PlainResponses :
        Send("GenerateReleaseNotesBuilder", "generate_release_notes",
             TypedRequest("POST", GenerateNotesRoute(repo), Some(Serialize(builder))),
             resp, crab_typed("ReleaseNotes", resp))

ListReleaseAssetsBuilder_send ==
    \E resp \in PlainResponses :
        Send("ListReleaseAssetsBuilder", "assets",
             TypedRequest("GET", AssetsRoute(repo, builder.self.release_id),
                          Some(Serialize(builder))),
             resp, crab_typed("Page", resp))

\* ---------------------------------------------- UploadAssetBuilder::send
\* let release = self.handler.get(self.release_id).await?  -- the request.
UploadAssetBuilder_send ==
    /\ pc = "idle"
    /\ builder.kind = "UploadAssetBuilder"
    /\ pc' = "upload_get"
    /\ op' = "upload_asset"
    /\ sent' = Call(get_request(builder.self.release_id))
    /\ recv' = <<>>
    /\ result' = NoResult
    /\ release' = None
    /\ inflight' = builder
    /\ builder' = MoveIntoSend(builder)
    /\ uses' = uses + 1
    /\ UNCHANGED repo

\* A send that falls back to a fixed upload URL when the release cannot be
\* fetched.
AfterFetchWithFallback(fetched, b) ==
    LET upload_url ==
            IF fetched.kind = "Err"
            THEN <<"h", "t", "t", "p", "s", ":", "/", "/", "h", "o", "s", "t", "/",
                   "u", "p", "l", "o", "a", "d">>
            ELSE fetched.value.upload_url
        url == TryIntoUri(BaseUri(upload_url, b.self.name, b.self.label))
    IN  IF url.kind = "Err"
        THEN [pc |-> "done", post |-> <<>>, result |-> url,
              release |-> IF fetched.kind = "Err" THEN None ELSE Some(fetched.value)]
        ELSE [pc |-> "upload_post", post |-> Call(UploadRequest(url.value, b.self.body)),
              result |-> NoResult,
              release |-> IF fetched.kind = "Err" THEN None ELSE Some(fetched.value)]

\* What send does once the GET has returned `fetched`: `?` returns its
\* error; otherwise the upload URI is built and converted, a conversion
\* error is returned, and else the POST is handed to the transport.
AfterFetch(fetched, b) ==
    IF fetched.kind = "Err"
    THEN [pc |-> "done", post |-> <<>>, result |-> fetched, release |-> None]
    ELSE LET release_ == fetched.value
             url == TryIntoUri(BaseUri(release_.upload_url, b.self.name, b.self.label))
         IN  IF url.kind = "Err"
             THEN [pc |-> "done", post |-> <<>>, result |-> url,
                   release |-> Some(release_)]
             ELSE [pc |-> "upload_post",
                   post |-> Call(UploadRequest(url.value, b.self.body)),
                   result |-> NoResult, release |-> Some(release_)]

UploadAssetBuilder_fetched ==
    /\ pc = "upload_get"
    /\ \E resp \in ReleaseResponses :
          LET next == AfterFetch(crab_typed("Release", resp), inflight)
          IN  /\ recv' = Append(recv, resp)
              /\ release' = next.release
              /\ sent' = sent \o next.post
              /\ result' = next.result
              /\ pc' = next.pc
    /\ UNCHANGED <<repo, builder, uses, op, inflight>>

\* let response = crab.execute(request).await?;
\* Asset::from_response(crate::map_github_error(response).await?).await
UploadResult(resp) ==
    LET executed == crab_execute(resp)
    IN  IF executed.kind = "Err" THEN executed
        ELSE LET mapped == map_github_error(executed.value)
             IN  IF mapped.kind = "Err" THEN mapped
                 ELSE from_response("Asset", mapped.value)

UploadAssetBuilder_uploaded ==
    /\ pc = "upload_post"
    /\ \E resp \in PlainResponses :
          /\ recv' = Append(recv, resp)
          /\ result' = UploadResult(resp)
    /\ pc' = "done"
    /\ UNCHANGED <<repo, builder, uses, op, inflight, release, sent>>

\* The caller takes the result of the completed call and goes on.
DropResult ==
    /\ pc = "done"
    /\ pc' = "idle"
    /\ op' = "none"
    /\ inflight' = NoBuilder
    /\ release' = None
    /\ sent' = <<>>
    /\ recv' = <<>>
    /\ result' = NoResult
    /\ UNCHANGED <<repo, builder, uses>>

Next ==
    \/ list
    \/ create
    \/ update
    \/ generate_release_notes
    \/ upload_asset
    \/ assets
    \/ ListReleasesBuilder_configure
    \/ CreateReleaseBuilder_configure
    \/ UpdateReleaseBuilder_configure
    \/ GenerateReleaseNotesBuilder_configure
    \/ ListReleaseAssetsBuilder_configure
    \/ UploadAssetBuilder_label
    \/ get_latest
    \/ get_by_tag
    \/ get
    \/ delete
    \/ ListReleasesBuilder_send
    \/ CreateReleaseBuilder_send
    \/ UpdateReleaseBuilder_send
    \/ GenerateReleaseNotesBuilder_send
    \/ ListReleaseAssetsBuilder_send
    \/ UploadAssetBuilder_send
    \/ UploadAssetBuilder_fetched
    \/ UploadAssetBuilder_uploaded
    \/ DropResult

Spec == Init /\ [][Next]_vars

\* ================================================================ claims
IsUploadPost(req) == "uri" \in DOMAIN req

\* A response on which the typed GET of the release fails.
GetFailed(resp) == ~resp.connected \/ ~IsSuccess(resp.status) \/ ~resp.decodes

\* C1: in UploadAssetBuilder::send the upload POST is issued only after the
\* GET of the release by release_id has returned successfully (the GET is
\* the first request, the POST the second); if the GET fails with a
\* transport error, a non-success status or a decode error, send returns
\* that error and no POST is issued.
C1_GetBeforePost ==
    op = "upload_asset" =>
        /\ sent[1].method = "GET"
        /\ sent[1].route = ReleaseRoute(repo, inflight.self.release_id)
        /\ ~IsUploadPost(sent[1])
        /\ \A i \in 2..Len(sent) :
              /\ i = 2
              /\ IsUploadPost(sent[i])
              /\ Len(recv) >= 1
              /\ ~GetFailed(recv[1])
        /\ (Len(recv) >= 1 /\ GetFailed(recv[1])) =>
              /\ pc = "done"
              /\ Len(sent) = 1
              /\ result.kind = "Err"
              /\ ~recv[1].connected => result = TransportError
              /\ (recv[1].connected /\ ~IsSuccess(recv[1].status)) =>
                     result = RemoteError(recv[1].status)
              /\ (recv[1].connected /\ IsSuccess(recv[1].status)) =>
                     result = DecodeError

\* Witness of C1: an upload whose GET succeeded and whose POST was issued
\* and answered.
C1_Witness ==
    /\ op = "upload_asset"
    /\ pc = "done"
    /\ Len(sent) = 2
    /\ IsUploadPost(sent[2])
    /\ result.kind = "Ok"

\* C2: for every upload_url template T that contains the placeholder
\* {?name,label}, every asset name N and every optional label L, the target
\* of the upload POST is exactly strip(T) + "?name=" + N when no label is
\* set and strip(T) + "?name=" + N + "&label=" + L when label L is set.
C2_UploadTarget ==
    (op = "upload_asset" /\ Len(sent) = 2
        /\ Contains(release[1].upload_url, Placeholder)) =>
        LET stripped == replace(release[1].upload_url, Placeholder)
            N == inflight.self.name
            L == inflight.self.label
        IN  sent[2].uri =
                IF L = None THEN stripped \o NameParam \o N
                ELSE stripped \o NameParam \o N \o LabelParam \o L[1]

UpdateOptionalFields ==
    {"tag_name", "target_commitish", "name", "body", "draft", "prerelease",
     "make_latest"}

\* C3: the JSON body of the PATCH sent by UpdateReleaseBuilder::send
\* contains exactly the optional fields that were set on the builder;
\* release_id appears only in the path and is never a field of the body.
C3_UpdateBody ==
    (op = "update" /\ pc = "done") =>
        /\ sent[1].method = "PATCH"
        /\ sent[1].route = ReleaseRoute(repo, inflight.self.release_id)
        /\ sent[1].payload # None
        /\ DOMAIN sent[1].payload[1] =
               {k \in UpdateOptionalFields : inflight.self[k] # None}

MandatoryFields(operation) ==
    IF operation \in {"create", "generate_release_notes"} THEN {"tag_name"} ELSE {}

OptionalFields(operation) ==
    CASE operation = "create" ->
             {"target_commitish", "name", "body", "draft", "prerelease",
              "make_latest"}
      [] operation = "generate_release_notes" ->
             {"previous_tag_name", "target_commitish", "configuration_file_path"}
      [] operation \in {"list", "assets"} -> {"per_page", "page"}

ExpectedToken == [True |-> "true", False |-> "false", Legacy |-> "legacy"]

\* C5: for every combination of optional fields set on a create,
\* generate-notes, list or list-assets builder, the body or query sent by
\* send contains exactly the mandatory tag_name (create and generate-notes
\* only) plus the optional fields that were set, each with the value given,
\* and nothing for an unset field.
C5_ExactFields ==
    (pc = "done" /\ op \in {"create", "generate_release_notes", "list", "assets"}) =>
        LET given == inflight.self
            mandatory == MandatoryFields(op)
            set == {k \in OptionalFields(op) : given[k] # None}
        IN  /\ sent[1].payload # None
            /\ DOMAIN sent[1].payload[1] = mandatory \cup set
            /\ \A k \in mandatory : sent[1].payload[1][k] = given[k]
            /\ \A k \in set :
                  sent[1].payload[1][k] =
                      IF k = "make_latest" THEN ExpectedToken[given[k][1]]
                      ELSE given[k][1]

\* Witness of C5: a create sent with draft and make_latest set and the
\* other optional fields unset.
C5_Witness ==
    /\ op = "create"
    /\ pc = "done"
    /\ DOMAIN sent[1].payload[1] = {"tag_name", "draft", "make_latest"}
    /\ inflight.self.name = None

\* C6: the upload POST always carries Content-Type
\* application/octet-stream and a Content-Length equal to the byte length
\* of the body given to upload_asset, the empty body included, and its body
\* is that byte sequence unchanged.
C6_UploadHeaders ==
    \A i \in 1..Len(sent) :
        IsUploadPost(sent[i]) =>
            /\ sent[i].method = "POST"
            /\ sent[i].headers.content_type = "application/octet-stream"
            /\ sent[i].headers.content_length = Len(inflight.self.body)
            /\ sent[i].body = inflight.self.body

\* Witness of C6: an upload POST of a body of two bytes.
C6_Witness ==
    /\ Len(sent) = 2
    /\ IsUploadPost(sent[2])
    /\ sent[2].body = <<0, 255>>
    /\ sent[2].headers.content_length = 2

\* C7: when the string built from the stripped template, the name and the
\* label does not convert to a URI, send returns the UriParse error, which
\* is none of the transport, remote and decode errors, and no POST is
\* issued: the only request of that execution is the release GET.
C7_UriParse ==
    (op = "upload_asset" /\ release # None
        /\ TryIntoUri(BaseUri(release[1].upload_url, inflight.self.name,
                              inflight.self.label)).kind = "Err") =>
        /\ pc = "done"
        /\ result.kind = "Err"
        /\ result.error = "UriParse"
        /\ result \notin {TransportError, DecodeError}
                             \cup {RemoteError(s) : s \in Statuses}
        /\ Len(sent) = 1
        /\ sent[1].method = "GET"
        /\ ~IsUploadPost(sent[1])

\* Witness of C7: the release was fetched with the template
\* "https://host/upload{?name,label}" and the asset name "a b" makes the
\* conversion fail.
C7_Witness ==
    /\ op = "upload_asset"
    /\ pc = "done"
    /\ release # None
    /\ Contains(release[1].upload_url, Placeholder)
    /\ \A i \in 1..Len(release[1].upload_url) : release[1].upload_url[i] # " "
    /\ inflight.self.name = <<"a", " ", "b">>
    /\ result = UriParseErr

\* C8: every finalization or immediate operation issues a fixed number of
\* transport requests with no retry: asset upload at most two, one GET and
\* then, after its response, at most one POST; every other operation
\* exactly one, whether the request succeeds or fails.
C8_RequestCount ==
    /\ (pc = "done" /\ op # "upload_asset") => (Len(sent) = 1 /\ Len(recv) = 1)
    /\ op = "upload_asset" =>
          /\ Len(sent) \in {1, 2}
          /\ sent[1].method = "GET"
          /\ Len(sent) = 2 => (IsUploadPost(sent[2]) /\ Len(recv) >= 1)
          /\ Len(recv) <= Len(sent)
          /\ pc = "done" => Len(recv) = Len(sent)

\* Witness of C8: a create that failed with a remote error after its one
\* request.
C8_Witness ==
    /\ op = "create"
    /\ pc = "done"
    /\ result = RemoteError(500)
    /\ Len(sent) = 1

Rooted(path) == IsPrefix(Slash \o repo \o ReleasesSegment, path)

RequestPath(req) == IF IsUploadPost(req) THEN req.uri ELSE req.route

\* C9: the path of every request issued by an operation of the facade, the
\* POST of asset upload included, is rooted at the repository root followed
\* by /releases.
C9_EveryRequestRooted == \A i \in 1..Len(sent) : Rooted(RequestPath(sent[i]))

\* C9 as amended: the route of every request other than the POST of asset
\* upload is rooted at the repository root followed by /releases (the
\* target of the upload POST is the upload_url of the fetched release), and
\* no step changes the repository reference held by the facade.
C9_RoutesRooted ==
    /\ [](\A i \in 1..Len(sent) : ~IsUploadPost(sent[i]) => Rooted(sent[i].route))
    /\ [][repo' = repo]_vars

\* Witness of C9: an upload whose GET is rooted at the repository's
\* releases and whose POST is not.
C9_Witness ==
    /\ op = "upload_asset"
    /\ Len(sent) = 2
    /\ Rooted(sent[1].route)
    /\ IsUploadPost(sent[2])
    /\ ~Rooted(sent[2].uri)

\* C10: creating a builder and calling its configuration methods issues no
\* transport request; a builder's request is issued only by send, which
\* takes the builder from the caller, so that each builder instance is
\* finalized at most once.
C10_BuildersAreLazy ==
    /\ [][(builder' # builder /\ builder' # NoBuilder) =>
             (sent' = sent /\ recv' = recv /\ pc' = "idle")]_vars
    /\ [][(builder' # builder /\ builder' = NoBuilder) =>
             (Len(sent') = 1 /\ inflight' = builder /\ uses' = uses + 1)]_vars
    /\ [](uses <= 1)
    /\ [](uses = 1 => builder = NoBuilder)

\* Witness of C10: a list builder configured with per_page and page and
\* then sent, once.
C10_Witness ==
    /\ op = "list"
    /\ pc = "done"
    /\ uses = 1
    /\ builder = NoBuilder
    /\ inflight.self.per_page # None
    /\ inflight.self.page # None
    /\ Len(sent) = 1

\* The tokens a MakeLatest value may serialize to.
MakeLatestTokens == {"true", "false", "legacy"}

\* C11: MakeLatest::True, MakeLatest::False and MakeLatest::Legacy serialize
\* in the body of a create or an update exactly to the string tokens "true",
\* "false" and "legacy" respectively, and to no other value.
C11_MakeLatestTokens ==
    (pc = "done" /\ op \in {"create", "update"}
        /\ inflight.self.make_latest # None) =>
        LET v == inflight.self.make_latest[1]
            json == sent[1].payload[1]
        IN  /\ "make_latest" \in DOMAIN json
            /\ json.make_latest \in MakeLatestTokens
            /\ (v = "True") => (json.make_latest = "true")
            /\ (v = "False") => (json.make_latest = "false")
            /\ (v = "Legacy") => (json.make_latest = "legacy")

\* Witness of C11: an update sent with make_latest set to MakeLatest::Legacy,
\* whose body carries the token "legacy".
C11_Witness ==
    /\ op = "update"
    /\ pc = "done"
    /\ inflight.self.make_latest = Some("Legacy")
    /\ sent[1].method = "PATCH"
    /\ sent[1].payload[1].make_latest = "legacy"

\* C12: in UploadAssetBuilder::send, when the upload_url of the fetched
\* release does not contain the literal substring {?name,label}, stripping
\* is a no-op and raises no error: the upload proceeds with the unmodified
\* upload_url followed by "?name=" and the name (and "&label=" and the
\* label when one is set) as the target.
C12_UnstrippedTarget ==
    (op = "upload_asset" /\ Len(sent) = 2
        /\ ~Contains(release[1].upload_url, Placeholder)) =>
        LET T == release[1].upload_url
            N == inflight.self.name
            L == inflight.self.label
        IN  /\ replace(T, Placeholder) = T
            /\ sent[2].uri =
                   IF L = None THEN T \o NameParam \o N
                   ELSE T \o NameParam \o N \o LabelParam \o L[1]

\* The query "?name=a&label=L".
CollidingQuery ==
    <<"?", "n", "a", "m", "e", "=", "a", "&", "l", "a", "b", "e", "l", "=", "L">>

\* The two inputs of C13: the name "a&label=L" with no label, and the name
\* "a" with the label "L".
NameHoldsLabel(b) ==
    /\ b.self.name = <<"a", "&", "l", "a", "b", "e", "l", "=", "L">>
    /\ b.self.label = None

NameAndLabel(b) ==
    /\ b.self.name = <<"a">>
    /\ b.self.label = Some(<<"L">>)

\* C13: UploadAssetBuilder::send inserts the asset name and the label into
\* the upload target verbatim, with no escaping or encoding, so that the
\* mapping from (name, label) to the target is not injective: for the same
\* template, the name "a&label=L" with no label and the name "a" with the
\* label "L" produce the identical upload target, the stripped template
\* followed by "?name=a&label=L".
C13_TargetNotInjective ==
    (op = "upload_asset" /\ release # None
        /\ (NameHoldsLabel(inflight) \/ NameAndLabel(inflight))) =>
        LET target == replace(release[1].upload_url, Placeholder) \o CollidingQuery
        IN  IF \E i \in 1..Len(target) : target[i] \in InvalidUriChars
            THEN Len(sent) = 1 /\ result = UriParseErr
            ELSE /\ Len(sent) = 2
                 /\ sent[2].uri = target
                 /\ \A i \in 1..Len(sent[2].uri) : sent[2].uri[i] # "%"

\* Witness of C13: an upload of the asset named "a&label=L", with no label,
\* that was posted to "https://host/upload?name=a&label=L".
C13_Witness ==
    /\ op = "upload_asset"
    /\ pc = "done"
    /\ NameHoldsLabel(inflight)
    /\ Len(sent) = 2
    /\ sent[2].uri =
           <<"h", "t", "t", "p", "s", ":", "/", "/", "h", "o", "s", "t", "/",
             "u", "p", "l", "o", "a", "d">> \o CollidingQuery
    /\ result.kind = "Ok"
====
